---- MODULE Spec2Model ----
(***************************************************************************)
(* The remote-execution client of internal/ssh/ssh.go: one ssh value, its  *)
(* Connect / Close lifecycle, Run / Send / Download with their retry       *)
(* ledger, the single calling flow that drives them, and a second flow     *)
(* that calls Close() at any time, or calls Run at the same time as the    *)
(* first.                                                                  *)
(*                                                                         *)
(* The outcomes of the environment (key file, dialer, handshake, session,  *)
(* command, secure-copy tool) are inputs drawn with \E in each step.       *)
(***************************************************************************)
EXTENDS Integers, Sequences, FiniteSets, TLC

VARIABLES
    ctx,      \* sh.ctx / sh.cancel: "nil", "live" or "cancelled"
    conn,     \* sh.conn: "nil", "open" or "closed" (Close() was called on it)
    cli,      \* sh.cli: "nil", "cur" (wraps the connection sh.conn holds),
              \*         "oldOpen" / "oldClosed" (wraps an earlier connection)
    retries,  \* sh.retries: the retry ledger, a function on the keys present
    stack,    \* the call stack of Run / Send / Download invocations
    cn,       \* the activation of Connect(): position, loop index, what it did
    fault,    \* "" or what ended the program: the place of a nil dereference,
              \* or the report of the runtime on the map sh.retries
    stats,    \* what the current (or last) top-level call has done so far
    lastRet,  \* what the last top-level call returned to the caller
    hist,     \* per retry key, how the last top-level call with it ended
    files,    \* the contents of the files Send and Download copy
    ops,      \* number of calls the caller made, those of Close() apart
    peer      \* where the other flow is: in its Close(), or in its Run

vars == <<ctx, conn, cli, retries, stack, cn, fault, stats, lastRet, hist,
          files, ops, peer>>

----------------------------------------------------------------------------
\* Bounds of the model.

\* Largest value of the retries option a caller passes.
MaxRetries == 2
\* Largest number of Connect() invocations one top-level call may make.
MaxConnects == 3
\* Largest number of calls of Connect(), Run, Send and Download the caller
\* makes; its calls of Close() are not counted.
MaxOps == 3
\* Largest number of such calls when calls carry a timeout option and
\* another flow may call Close() at any time.
MaxFlightOps == 2

\* Retry keys: PublicDNSName + cmd for Run (line 186), PublicDNSName +
\* localPath for Send and Download alike (lines 300 and 379).
RunKeys == {"cmd"}
PathKeys == {"path"}
\* A second local path, for a Download that must not overwrite the file a
\* Send has read.
CopyPaths == {"path2"}
Keys == RunKeys \cup PathKeys \cup CopyPaths

\* The timeout option: 0 when it is not given (line 183), 1 for WithTimeout
\* of a positive duration.
Timeouts == {0, 1}

\* The number of dial attempts of one Connect().
MaxDial == 15

----------------------------------------------------------------------------
\* Errors.  A dial error is the error value of one dial attempt: at is the
\* attempt (1..15) that produced it.

Err(kind) == [kind |-> kind, at |-> 0]
DialErr(n) == [kind |-> "dial", at |-> n]
NilErr == Err("nil")

IsNil(e) == e.kind = "nil"

----------------------------------------------------------------------------
\* The retry ledger, a Go map[string]int.

EmptyLedger == [k \in {} |-> 0]

Has(m, k) == k \in DOMAIN m

\* m[k] of a Go map: the zero value when the key is absent.
Get(m, k) == IF Has(m, k) THEN m[k] ELSE 0

Put(m, k, v) == [x \in DOMAIN m \cup {k} |-> IF x = k THEN v ELSE m[x]]

Delete(m, k) == [x \in DOMAIN m \ {k} |-> m[x]]

\* if _, ok := sh.retries[key]; !ok { sh.retries[key] = ret.retries }
Seed(m, k, n) == IF Has(m, k) THEN m ELSE Put(m, k, n)

\* A variant of Decrement that leaves the count as it is.
Decrement_None(m, k) == m

\* sh.retries[key]--
Decrement(m, k) == Put(m, k, Get(m, k) - 1)

\* A variant of ShouldRetry that retries on any budget that is not negative.
ShouldRetry_NonNegative(m, k) == Get(m, k) >= 0

\* if sh.retries[key] != 0 { ... }
ShouldRetry(m, k) == Get(m, k) # 0

\* A variant of DeleteOnSuccess that keeps the entry.
DeleteOnSuccess_Never(m, k, e) == m

\* if err == nil { delete(sh.retries, key) }
DeleteOnSuccess(m, k, e) == IF IsNil(e) THEN Delete(m, k) ELSE m

----------------------------------------------------------------------------
\* The failure protocol is written out three times: in Run (lines 249-266),
\* in Send (lines 354-372) and in Download (lines 432-450).  Each copy has a
\* test, a loop body, a call of the operation again and a last statement of
\* its own.

\* Run, lines 249-251: if err != nil { ... if sh.retries[key] != 0 {
RunRetries(m, k, e) == ~IsNil(e) /\ ShouldRetry(m, k)

\* Run, line 256: sh.retries[key]--
RunLoop(m, k) == Decrement(m, k)

\* Run, line 260: out, err = sh.Run(cmd, opts...)
RunCallsAgain == "Run"

\* Run, lines 263-265: if err == nil { delete(sh.retries, key) }
RunLeaves(m, k, e) == DeleteOnSuccess(m, k, e)

\* A variant of SendRetries that tests the count with >= 0.
SendRetries_NonNegative(m, k, e) == ~IsNil(e) /\ Get(m, k) >= 0

\* Send, lines 354-357: if err != nil { ... if sh.retries[key] != 0 {
SendRetries(m, k, e) == ~IsNil(e) /\ ShouldRetry(m, k)

\* Send, line 362: sh.retries[key]--
SendLoop(m, k) == Decrement(m, k)

\* Send, line 366: out, err = sh.Send(localPath, remotePath, opts...)
SendCallsAgain == "Send"

\* Send, lines 369-371: if err == nil { delete(sh.retries, key) }
SendLeaves(m, k, e) == DeleteOnSuccess(m, k, e)

\* Download, lines 432-435: if err != nil { ... if sh.retries[key] != 0 {
DownloadRetries(m, k, e) == ~IsNil(e) /\ ShouldRetry(m, k)

\* Download, line 440: sh.retries[key]--
DownloadLoop(m, k) == Decrement(m, k)

\* Download, line 444: out, err = sh.Download(remotePath, localPath, opts...)
DownloadCallsAgain == "Download"

\* Download, lines 447-449: if err == nil { delete(sh.retries, key) }
DownloadLeaves(m, k, e) == DeleteOnSuccess(m, k, e)

\* The copy of the operation op: whether the failure protocol is entered
\* with the ledger m and the error e of the attempt,
Retrying(op, m, k, e) ==
    CASE op = "Run" -> RunRetries(m, k, e)
      [] op = "Send" -> SendRetries(m, k, e)
      [] op = "Download" -> DownloadRetries(m, k, e)

\* the ledger after the first statement of one iteration of its loop,
LoopStep(op, m, k) ==
    CASE op = "Run" -> RunLoop(m, k)
      [] op = "Send" -> SendLoop(m, k)
      [] op = "Download" -> DownloadLoop(m, k)

\* the operation it calls after the loop,
CalledAgain(op) ==
    CASE op = "Run" -> RunCallsAgain
      [] op = "Send" -> SendCallsAgain
      [] op = "Download" -> DownloadCallsAgain

\* and the ledger it leaves when it returns the error e.
Leaves(op, m, k, e) ==
    CASE op = "Run" -> RunLeaves(m, k, e)
      [] op = "Send" -> SendLeaves(m, k, e)
      [] op = "Download" -> DownloadLeaves(m, k, e)

----------------------------------------------------------------------------
\* The state after New.

\* execs: executions of the command or tool that have ended; closes and
\* connects: the call's own Close() and Connect() invocations; last: the
\* output and error of the invocation that ended last; tape: how the call's
\* attempts ("ok", "failed", or "pre" for a return before the execution) and
\* the Connect() invocations of its reconnect loops ("cok", "cfailed") ended,
\* in order.
NoStats ==
    [execs |-> 0, closes |-> 0, connects |-> 0,
     last |-> [out |-> 0, err |-> NilErr], tape |-> << >>]

IdleConnect ==
    [pc |-> "idle", i |-> 0, loads |-> 0, parses |-> 0, dials |-> 0,
     sleeps |-> 0, hss |-> 0, err |-> NilErr, logged |-> NilErr]

NoRet ==
    [op |-> "none", key |-> "", retries |-> 0, fresh |-> FALSE, out |-> 0,
     err |-> NilErr]

\* No call has ended yet.
NoHist == [k \in Keys |-> "none"]

\* The two local files and the remote file, each with a content of its own.
InitFiles == [path |-> "A", remote |-> "B", path2 |-> "C"]

\* The second flow has made no call.
NoPeer == [pc |-> "idle"]

Init ==
    /\ ctx = "nil"
    /\ conn = "nil"
    /\ cli = "nil"
    /\ retries = EmptyLedger
    /\ stack = << >>
    /\ cn = IdleConnect
    /\ fault = ""
    /\ stats = NoStats
    /\ lastRet = NoRet
    /\ hist = NoHist
    /\ files = InitFiles
    /\ ops = 0
    /\ peer = NoPeer

\* Control is with the caller: no call is in progress and nothing crashed.
AtCaller ==
    /\ fault = ""
    /\ stack = << >>
    /\ cn.pc \in {"idle", "done"}

----------------------------------------------------------------------------
\* Connect(), lines 82-170.

KeyOutcomes == {"ok", "noread", "noparse"}
\* "refused": *net.OpError with ECONNREFUSED; "operr": another *net.OpError;
\* "other": an error of another type.
DialFailures == {"refused", "operr", "other"}
DialOutcomes == {"ok"} \cup DialFailures
\* "fail": cryptossh.NewClientConn fails; "panic": it fails and os.Stat of
\* line 151 fails too, so that fi.Mode() of line 156 is called on a nil fi.
HandshakeOutcomes == {"ok", "fail", "panic"}

\* Lines 83-91: the new lifetime, ioutil.ReadFile and ParsePrivateKey.
KeyErr(kout) ==
    IF kout = "noread" THEN Err("readkey")
    ELSE IF kout = "noparse" THEN Err("parsekey")
    ELSE NilErr

ConnectEntry(kout) ==
    [pc     |-> IF kout = "ok" THEN "dial" ELSE "done",
     i      |-> 0,
     loads  |-> 1,
     parses |-> IF kout = "noread" THEN 0 ELSE 1,
     dials  |-> 0,
     sleeps |-> 0,
     hss    |-> 0,
     err    |-> KeyErr(kout),
     logged |-> NilErr]

\* A variant of DialLoopRuns that is off by one.
DialLoopRuns_OffByOne(c) == c.i <= MaxDial

\* for i := 0; i < 15; i++
DialLoopRuns(c) == c.i < MaxDial

\* A variant of SleepAfterFailedDial that does not sleep.
SleepAfterFailedDial_Skipped(s) == s

\* time.Sleep(5 * time.Second) after a failed attempt, line 132.
SleepAfterFailedDial(s) == s + 1

\* err after a failed attempt: the error of that attempt (line 106).
DialErrOf(c) == DialErr(c.dials + 1)

\* Lines 112-131: a failed attempt is logged when its error is a
\* *net.OpError that says connection refused, or is not a *net.OpError.
DialLogged(out) == out \in {"refused", "other"}

\* The select of lines 98-102 takes the default case: d.DialContext is
\* called, line 106.
DialStarted(c) == [c EXCEPT !.pc = "dialing"]

\* d.DialContext returns, lines 106-131.  logged is the error the Warn event
\* of the last failure carried, nil when that failure was not logged.
DialReturned(c, out) ==
    IF out = "ok"
    THEN [c EXCEPT !.dials = @ + 1, !.err = NilErr, !.pc = "handshake"]
    ELSE [c EXCEPT !.dials = @ + 1,
                   !.err = DialErrOf(c),
                   !.logged = IF DialLogged(out) THEN DialErrOf(c) ELSE NilErr,
                   !.pc = "sleeping"]

\* time.Sleep returns, line 132, then i++ and the loop test, and lines
\* 134-136 when the loop is left.
Slept(c) ==
    LET d == [c EXCEPT !.sleeps = SleepAfterFailedDial(@), !.i = @ + 1]
    IN  [d EXCEPT !.pc = IF DialLoopRuns(d) THEN "dial" ELSE "done"]

\* One pass of the loop body, lines 103-132, then the loop test and lines
\* 134-136.
DialAttempt(c, out) ==
    LET d == DialReturned(DialStarted(c), out)
    IN  IF d.pc = "sleeping" THEN Slept(d) ELSE d

\* The passes of the loop, lines 97-133, when the first fails attempts fail
\* with an error of the class kind and every later one succeeds.
RECURSIVE DialLoop(_, _, _)
DialLoop(c, fails, kind) ==
    IF c.pc # "dial" THEN c
    ELSE DialLoop(DialAttempt(c, IF c.i < fails THEN kind ELSE "ok"),
                  fails, kind)

\* What the last d.DialContext of the loop returned.
LastDialOutcome(c) == IF IsNil(c.err) THEN "ok" ELSE "refused"

\* A variant of StopsAtTop that never looks at the lifetime.
StopsAtTop_Never(x) == FALSE

\* The select of lines 98-102 takes case <-sh.ctx.Done().
StopsAtTop(x) == x = "cancelled"

\* case <-sh.ctx.Done(): return errors.New("stopped"), lines 98-102.
DialStopped(c) ==
    [c EXCEPT !.err = Err("stopped"), !.logged = NilErr, !.pc = "done"]

\* Where Connect() goes after cryptossh.NewClientConn, lines 149-169: it
\* returns, unless the arguments of the Warn of lines 152-159 panic.
AfterHandshake(hout) == IF hout = "panic" THEN "panic" ELSE "done"

\* fi.Mode() on the nil fi that the os.Stat of line 151 left, line 156.
HandshakeFault(hout) == IF hout = "panic" THEN "Connect: fi is nil" ELSE ""

\* Lines 149-169; a failed handshake is logged, lines 152-159, when the
\* arguments of the Warn can be computed.
HandshakeAttempt(c, hout) ==
    [c EXCEPT !.hss = @ + 1,
              !.err = IF hout = "ok" THEN NilErr ELSE Err("handshake"),
              !.logged = IF hout = "fail" THEN Err("handshake")
                         ELSE IF hout = "panic" THEN NilErr ELSE @,
              !.pc = AfterHandshake(hout)]

\* sh.cli when sh.conn is assigned another value: it keeps the old connection.
Detach(cl, c) ==
    IF cl = "cur" THEN (IF c = "closed" THEN "oldClosed" ELSE "oldOpen") ELSE cl

\* sh.conn, err = d.DialContext(...): nil on failure.
DialedConn(out) == IF out = "ok" THEN "open" ELSE "nil"

----------------------------------------------------------------------------
\* Close(), lines 172-180.

\* sh.cancel(), line 173, on the nil func New leaves.
CancelFault == IF ctx = "nil" THEN "Close: sh.cancel is nil" ELSE ""

\* sh.conn.Close(), line 174, on a nil sh.conn.
ConnCloseFault == IF conn = "nil" THEN "Close: sh.conn is nil" ELSE ""

CloseFault == IF CancelFault # "" THEN CancelFault ELSE ConnCloseFault

\* sh.conn.Close(), line 174, when the read of sh.conn races with the write
\* of line 106 and takes one word of each value: with the nil type word the
\* call panics, with the nil data word it returns an error and closes
\* nothing.
TornReads == {"panic", "nothing"}

TornFault(t) == IF t = "panic" THEN "Close: sh.conn is torn" ELSE ""

\* The two values of sh.conn differ in a word of which one is nil.
TornPossible(old, new) == (old = "nil") # (new = "nil")

\* A variant of ClosedUnder in which a session outlives its connection.
ClosedUnder_Kept(ch) == ch

\* sh.conn.Close(), line 174, for the channel ch of a session: the channel
\* the client holds rides on the connection that is closed.
ClosedUnder(ch) == IF ch = "cur" THEN "closed" ELSE ch

\* sh.cli = cryptossh.NewClient(...), line 163, for the channel ch of a
\* session: the client holds another channel from now on.
Superseded(ch) == IF ch = "none" THEN ch ELSE "replaced"

\* sh.ctx, sh.cancel = context.WithCancel(context.Background()), line 83,
\* for the lifetime l a context was derived from: sh.ctx held x until now.
Renewed(l, x) ==
    IF l = "cur" THEN (IF x = "cancelled" THEN "cancelled" ELSE "orphan") ELSE l

\* sh.cancel()
Cancelled(x) == IF x = "nil" THEN x ELSE "cancelled"

\* A variant of ClosedConn that leaves the connection open.
ClosedConn_Kept(c) == c

\* sh.conn.Close()
ClosedConn(c) == IF c = "nil" THEN c ELSE "closed"

----------------------------------------------------------------------------
\* Frames of Run / Send / Download.

\* out: the output the invocation holds, 0 for nil and the number of the
\* execution for what CombinedOutput returned; sess: the session of lines
\* 195-198; chan: the channel that session is on, "none" without a session,
\* "cur" for the one sh.cli holds, "closed" once Close() has closed the
\* connection under it, "replaced" once sh.cli holds another; life: the
\* lifetime the context of lines 218-224 was derived from, "none" without
\* such a context, "cur" for the one sh.ctx holds, "cancelled" or "orphan"
\* for an earlier one that was cancelled or not when Connect() replaced it;
\* task: the goroutine of lines 227-230.
Frame(op, k, n, t, fresh) ==
    [op |-> op, key |-> k, retries |-> n, timeout |-> t, fresh |-> fresh,
     pc |-> "entry", out |-> 0, err |-> NilErr, sess |-> "none",
     chan |-> "none", life |-> "none", task |-> "none"]

Top == stack[Len(stack)]

\* The invocations after a Close() that another flow made, and after a
\* Connect() of another flow that installed a new client.
Closing(stk) ==
    IF cli = "cur"
    THEN [i \in DOMAIN stk |-> [stk[i] EXCEPT !.chan = ClosedUnder(@)]]
    ELSE stk

Superseding(stk) == [i \in DOMAIN stk |-> [stk[i] EXCEPT !.chan = Superseded(@)]]

\* The invocations after line 83 of a Connect() of another flow, which has
\* found the lifetime x in sh.ctx.
Renewing(stk, x) == [i \in DOMAIN stk |-> [stk[i] EXCEPT !.life = Renewed(@, x)]]

SetTop(stk, f) == [stk EXCEPT ![Len(stk)] = f]

RetOf(f) ==
    [op |-> f.op, key |-> f.key, retries |-> f.retries, fresh |-> f.fresh,
     out |-> f.out, err |-> f.err]

ConnectRet(e) ==
    [op |-> "Connect", key |-> "", retries |-> 0, fresh |-> FALSE, out |-> 0,
     err |-> e]

\* A variant of ConnectReturns that gives up on a failed Connect() and
\* returns its error.
ConnectReturns_GiveUp(stk, e) ==
    IF stk = << >> THEN stk
    ELSE LET f == stk[Len(stk)] IN
         IF IsNil(e)
         THEN Append(SetTop(stk, [f EXCEPT !.pc = "await"]),
                     Frame(CalledAgain(f.op), f.key, f.retries, f.timeout,
                           FALSE))
         ELSE SetTop(stk, [f EXCEPT !.pc = "ret", !.err = e])

\* The reconnect loop of lines 254-260 once Connect() has returned e:
\* loop again on an error, else sleep retryInterval and call the operation
\* again with the same arguments.
ConnectReturns(stk, e) ==
    IF stk = << >> THEN stk
    ELSE LET f == stk[Len(stk)] IN
         IF IsNil(e)
         THEN Append(SetTop(stk, [f EXCEPT !.pc = "await"]),
                     Frame(CalledAgain(f.op), f.key, f.retries, f.timeout,
                           FALSE))
         ELSE SetTop(stk, [f EXCEPT !.pc = "reconnect"])

\* The activation of Connect() ends when it returns to a reconnect loop; the
\* one of the caller's own Connect() is kept for the caller to look at.
Activation(stk, c) ==
    IF stk # << >> THEN IdleConnect ELSE c

\* The ways one call of Connect() can go: how the key is read and parsed,
\* how many dial attempts fail and with which class of error, and how the
\* handshake ends.  A call that fails on the key dials nothing, one without
\* a failed dial attempt has no class of error, and one whose every dial
\* attempt fails has no handshake.
ConnectRuns ==
    {<<k, 0, "ok", "refused">> : k \in KeyOutcomes \ {"ok"}}
      \cup {<<"ok", 0, h, "refused">> : h \in HandshakeOutcomes}
      \cup {<<"ok", f, h, d>> : f \in 1..(MaxDial - 1), h \in HandshakeOutcomes,
                               d \in DialFailures}
      \cup {<<"ok", MaxDial, "ok", d>> : d \in DialFailures}

\* The activation of Connect() on each of these runs, lines 83-169: when the
\* dial loop is left (loop) and when Connect() is (end).
ConnectPaths ==
    [run \in ConnectRuns |->
        LET c1 == ConnectEntry(run[1])
            c2 == IF c1.pc = "dial" THEN DialLoop(c1, run[2], run[4]) ELSE c1
            c3 == IF c2.pc = "handshake" THEN HandshakeAttempt(c2, run[3])
                  ELSE c2
        IN  [loop |-> c2, end |-> c3]]

\* What the reconnect loop of lines 255-258 keeps of a run of the Connect()
\* it calls: whether it returned an error, whether it dialed and how the
\* last attempt ended, whether it came to the handshake and how that ended,
\* and, when it panicked, the activation it was in.
LoopSees(run) ==
    LET p == ConnectPaths[run] IN
    [err    |-> IsNil(p.end.err),
     dialed |-> p.loop.dials > 0,
     last   |-> IsNil(p.loop.err),
     shook  |-> p.end.hss > 0,
     hout   |-> IF p.loop.pc = "handshake" THEN run[3] ELSE "none",
     cn     |-> IF p.end.pc = "panic" THEN p.end ELSE IdleConnect]

\* The runs of the Connect() of the loop: of the runs between which the loop
\* sees no difference, which lead it to the same state, one is kept.
LoopRuns ==
    {run \in ConnectRuns :
        run = CHOOSE r \in ConnectRuns : LoopSees(r) = LoopSees(run)}

\* One call of Connect(), lines 82-170, on the connection and the handle the
\* client holds: the key is read and parsed as kout says, the first fails
\* dial attempts fail with an error of the class kind, and the handshake,
\* when it is reached, ends as hout says.
ConnectCall(kout, fails, hout, kind) ==
    LET c2 == ConnectPaths[<<kout, fails, hout, kind>>].loop
        c3 == ConnectPaths[<<kout, fails, hout, kind>>].end
    IN  [cn    |-> c3,
         conn  |-> IF c2.dials = 0 THEN conn ELSE DialedConn(LastDialOutcome(c2)),
         cli   |-> IF c3.hss > 0 /\ IsNil(c3.err) THEN "cur"
                   ELSE IF c2.dials = 0 THEN cli
                   ELSE Detach(cli, conn),
         fault |-> IF c2.pc = "handshake" THEN HandshakeFault(hout) ELSE ""]

----------------------------------------------------------------------------
\* The caller's calls.  The caller is one sequential flow: it makes a call
\* when the previous one has returned.

MayCall == AtCaller /\ ops < MaxOps

\* The caller calls Connect(), lines 82-170.
CallConnect ==
    /\ MayCall
    /\ \E run \in ConnectRuns :
         LET r == ConnectCall(run[1], run[2], run[3], run[4]) IN
         /\ cn' = r.cn
         /\ conn' = r.conn
         /\ cli' = r.cli
         /\ fault' = r.fault
         /\ lastRet' = IF r.fault = "" THEN ConnectRet(r.cn.err) ELSE NoRet
    /\ ctx' = "live"
    /\ stats' = NoStats
    /\ ops' = ops + 1
    /\ UNCHANGED <<retries, stack, hist, files>>
    /\ UNCHANGED peer

\* The caller calls Close(), lines 172-180.
CallClose ==
    /\ AtCaller
    /\ fault' = CloseFault
    /\ ctx' = Cancelled(ctx)
    /\ conn' = IF CloseFault = "" THEN ClosedConn(conn) ELSE conn
    /\ lastRet' = [op |-> "Close", key |-> "", retries |-> 0, fresh |-> FALSE,
                   out |-> 0, err |-> NilErr]
    /\ stats' = NoStats
    /\ UNCHANGED <<cli, retries, stack, cn, hist, files, ops>>
    /\ UNCHANGED peer

\* A top-level call of op starts: its arguments and options are chosen, and
\* what is recorded about the previous call is dropped.
Call(op, paths, ts) ==
    /\ \E k \in paths, n \in 0..MaxRetries, t \in ts :
         stack' = <<Frame(op, k, n, t, ~Has(retries, k))>>
    /\ cn' = IdleConnect
    /\ lastRet' = NoRet
    /\ stats' = NoStats
    /\ ops' = ops + 1
    /\ UNCHANGED <<ctx, conn, cli, retries, fault, hist, files>>
    /\ UNCHANGED peer

\* The caller calls Run(cmd, WithRetry(n)).
CallRun == MayCall /\ Call("Run", RunKeys, {0})

\* The caller calls Send(localPath, remotePath, WithRetry(n)).
CallSend == MayCall /\ Call("Send", PathKeys, {0})

\* The caller calls Download(remotePath, localPath, WithRetry(n)).
CallDownload == MayCall /\ Call("Download", PathKeys, {0})

\* The caller calls Download(remotePath, localPath2, WithRetry(n)).
CallDownloadCopy == MayCall /\ Call("Download", CopyPaths, {0})

\* The same calls with WithTimeout(t) as well, for a client on which another
\* flow calls Close() at any time: the caller's calls of Connect() and the
\* first of its calls of Run, Send or Download are followed.
MayCallTimed == AtCaller /\ ops < MaxFlightOps

CallRunTimed == MayCallTimed /\ hist = NoHist /\ Call("Run", RunKeys, Timeouts)

CallSendTimed == MayCallTimed /\ hist = NoHist /\ Call("Send", PathKeys, Timeouts)

CallDownloadTimed == MayCallTimed /\ hist = NoHist /\ Call("Download", PathKeys, Timeouts)

----------------------------------------------------------------------------
\* The derived context of an attempt, lines 218-224 (307-313, 386-392).

\* A variant of HasDeadline in which every attempt has a deadline.
HasDeadline_Always(t) == TRUE

\* if ret.timeout == 0 { WithCancel(sh.ctx) } else { WithTimeout(sh.ctx, ...) }
HasDeadline(t) == t # 0

\* A variant of ParentCancelled in which the derived context is a root.
ParentCancelled_Detached(x) == FALSE

\* The derived context is a child of sh.ctx: it is done once sh.ctx is.
ParentCancelled(x) == x = "cancelled"

\* The lifetime the context of the attempt f was derived from, lines 218-224:
\* the one sh.ctx holds, or an earlier one.
Lifetime(f) ==
    IF f.life = "cancelled" THEN "cancelled"
    ELSE IF f.life = "orphan" THEN "live"
    ELSE ctx

\* ctx.Done() of an attempt with timeout t under the lifetime x can be
\* closed: a deadline can pass at any moment, a lifetime is cancelled or not.
DerivedDone(t, x) == HasDeadline(t) \/ ParentCancelled(x)

----------------------------------------------------------------------------
\* The failure protocol, lines 249-266 of Run, 354-372 of Send, 432-450 of
\* Download.

\* How an attempt, or a top-level call, that came back with e ended.
Ended(e) == IF IsNil(e) THEN "ok" ELSE "failed"

\* How a Connect() of the reconnect loop that returned e ended.
Connected(e) == IF IsNil(e) THEN "cok" ELSE "cfailed"

\* The invocation f has come to line 249 (354, 432) with f.out and f.err,
\* the ledger being m, after ran executions of the command or tool (1, or 0
\* when the tool was not started): up to the reconnect loop, or to the
\* return.
FailureProtocol(f, m, ran) ==
    /\ stats' = [stats EXCEPT !.execs = @ + ran,
                              !.closes = IF Retrying(f.op, m, f.key, f.err)
                                         THEN @ + 1 ELSE @,
                              !.last = [out |-> f.out, err |-> f.err],
                              !.tape = Append(@, Ended(f.err))]
    /\ IF Retrying(f.op, m, f.key, f.err)
       THEN \* sh.Close(), then the loop
            /\ fault' = CloseFault
            /\ ctx' = Cancelled(ctx)
            /\ conn' = IF CloseFault = "" THEN ClosedConn(conn) ELSE conn
            /\ retries' = m
            /\ stack' = SetTop(stack, [f EXCEPT !.pc = "reconnect"])
       ELSE /\ retries' = Leaves(f.op, m, f.key, f.err)
            /\ stack' = SetTop(stack, [f EXCEPT !.pc = "ret"])
            /\ UNCHANGED <<ctx, conn, fault>>

\* A variant of EarlyReturn that goes on to the failure protocol with the
\* error instead of returning it.
EarlyReturn_ThroughProtocol(f, m, e) ==
    FailureProtocol([f EXCEPT !.err = e], m, 0)

\* A return before the execution, with error e: lines 196-198, 205-207,
\* 212-214 of Run, 318-325 of Send, 397-404 of Download.
EarlyReturn(f, m, e) ==
    /\ retries' = m
    /\ stack' = SetTop(stack, [f EXCEPT !.pc = "ret", !.err = e])
    /\ stats' = [stats EXCEPT !.last = [out |-> 0, err |-> e],
                              !.tape = Append(@, "pre")]
    /\ UNCHANGED <<ctx, conn, fault>>

AttemptErr(out) ==
    CASE out = "ok" -> NilErr
      [] out = "fail" -> Err("exec")
      [] out = "session" -> Err("session")
      [] out = "setenv" -> Err("setenv")
      [] out = "lookpath" -> Err("lookpath")
      [] out = "chmod" -> Err("chmod")

\* The output of the execution that ends now.
Output == stats.execs + 1

\* CombinedOutput returns: without ("ok") or with ("fail") an error.
ExecOutcomes == {"ok", "fail"}

----------------------------------------------------------------------------
\* One invocation of Run, lines 182-266.

\* "session": sh.cli.NewSession() fails; "setenv": ss.Setenv fails;
\* "started": the goroutine of lines 227-230 is started.
RunOutcomes == {"session", "setenv", "started"}

\* The transport under sh.cli has not been closed.
CliOpen == (cli = "cur" /\ conn = "open") \/ cli = "oldOpen"

RunPossible(f, out) == out # "session" => CliOpen

\* The returns of lines 196-198 and 205-207 and 212-214.
RunReturnsEarly(out) == out \in {"session", "setenv"}

\* Lines 185-230: the ledger is seeded, the session opened, the environment
\* applied, the context derived and the command started in its goroutine.
RunAttempt ==
    /\ fault = ""
    /\ stack # << >>
    /\ Top.pc = "entry"
    /\ Top.op = "Run"
    /\ LET f == Top
           m == Seed(retries, f.key, f.retries)
       IN  IF cli = "nil"
           THEN \* sh.cli.NewSession() on a nil client
                /\ fault' = "Run: sh.cli is nil"
                /\ retries' = m
                /\ UNCHANGED <<ctx, conn, stack, stats>>
           ELSE \E out \in RunOutcomes :
                /\ RunPossible(f, out)
                /\ IF RunReturnsEarly(out)
                   THEN EarlyReturn([f EXCEPT !.sess = IF out = "setenv"
                                                       THEN "open" ELSE "none",
                                              !.chan = IF out = "setenv"
                                                       THEN "cur" ELSE "none"],
                                    m, AttemptErr(out))
                   ELSE /\ retries' = m
                        /\ stack' = SetTop(stack, [f EXCEPT !.pc = "running",
                                                            !.sess = "open",
                                                            !.chan = "cur",
                                                            !.life = "cur",
                                                            !.task = "running"])
                        /\ UNCHANGED <<ctx, conn, fault, stats>>
    /\ UNCHANGED <<cli, cn, lastRet, hist, files, ops>>
    /\ UNCHANGED peer

\* The same lines one wait at a time, for a client that another flow uses
\* too.  Lines 185-194: the ledger is seeded and sh.cli.NewSession() called.
RunSeeds ==
    /\ fault = ""
    /\ stack # << >>
    /\ Top.pc = "entry"
    /\ Top.op = "Run"
    /\ retries' = Seed(retries, Top.key, Top.retries)
    /\ IF cli = "nil"
       THEN /\ fault' = "Run: sh.cli is nil"
            /\ UNCHANGED stack
       ELSE /\ stack' = SetTop(stack, [Top EXCEPT !.pc = "opening"])
            /\ UNCHANGED fault
    /\ UNCHANGED <<ctx, conn, cli, cn, stats, lastRet, hist, files, ops>>
    /\ UNCHANGED peer

\* Lines 195-204: sh.cli.NewSession() returns, and the first ss.Setenv, if
\* any, is called.
RunOpens ==
    /\ fault = ""
    /\ stack # << >>
    /\ Top.pc = "opening"
    /\ \E out \in RunOutcomes \ {"setenv"} :
         /\ RunPossible(Top, out)
         /\ IF RunReturnsEarly(out)
            THEN EarlyReturn(Top, retries, AttemptErr(out))
            ELSE /\ stack' = SetTop(stack, [Top EXCEPT !.pc = "setenv",
                                                       !.sess = "open",
                                                       !.chan = "cur"])
                 /\ UNCHANGED <<ctx, conn, retries, fault, stats>>
    /\ UNCHANGED <<cli, cn, lastRet, hist, files, ops>>
    /\ UNCHANGED peer

\* Lines 205-230: the environment is applied, the context derived from
\* sh.ctx and the command started in its goroutine.
RunStarts ==
    /\ fault = ""
    /\ stack # << >>
    /\ Top.pc = "setenv"
    /\ \E out \in RunOutcomes \ {"session"} :
         IF RunReturnsEarly(out)
         THEN EarlyReturn(Top, retries, AttemptErr(out))
         ELSE /\ stack' = SetTop(stack, [Top EXCEPT !.pc = "running",
                                                    !.life = "cur",
                                                    !.task = "running"])
              /\ UNCHANGED <<ctx, conn, retries, fault, stats>>
    /\ UNCHANGED <<cli, cn, lastRet, hist, files, ops>>
    /\ UNCHANGED peer

\* The goroutine, lines 227-230: ss.CombinedOutput(cmd) returns into the
\* invocation's out and err, and donec is closed.
TaskCompletes ==
    /\ fault = ""
    /\ stack # << >>
    /\ Top.op = "Run"
    /\ Top.task = "running"
    /\ \E r \in ExecOutcomes :
         stack' = SetTop(stack, [Top EXCEPT !.task = "done", !.out = Output,
                                            !.err = AttemptErr(r)])
    /\ UNCHANGED <<ctx, conn, cli, retries, cn, fault, stats, lastRet, hist,
                   files, ops>>
    /\ UNCHANGED peer

\* The select of line 231 takes case <-donec, lines 236-238, and the
\* invocation goes on to line 249.
RunTaskDone ==
    /\ fault = ""
    /\ stack # << >>
    /\ Top.op = "Run"
    /\ Top.pc = "running"
    /\ Top.task = "done"
    /\ FailureProtocol([Top EXCEPT !.sess = "closed", !.chan = "none",
                                   !.life = "none"],
                       retries, 1)
    /\ UNCHANGED <<cli, cn, lastRet, hist, files, ops>>
    /\ UNCHANGED peer

\* The select of line 231 takes case <-ctx.Done(): ss.Close(), cancel(), and
\* the invocation waits on donec at line 234.
RunCtxDone ==
    /\ fault = ""
    /\ stack # << >>
    /\ Top.op = "Run"
    /\ Top.pc = "running"
    /\ DerivedDone(Top.timeout, Lifetime(Top))
    /\ stack' = SetTop(stack, [Top EXCEPT !.pc = "draining", !.sess = "closed",
                                          !.chan = "none", !.life = "none"])
    /\ UNCHANGED <<ctx, conn, cli, retries, cn, fault, stats, lastRet, hist,
                   files, ops>>
    /\ UNCHANGED peer

\* A variant of CtxDoneResult that keeps what the goroutine stored.
CtxDoneResult_KeepTask(f) == f

\* out, err = nil, ctx.Err(), line 235.
CtxDoneResult(f) == [f EXCEPT !.out = 0, !.err = Err("ctx")]

\* A variant of Drained that does not wait for the goroutine.
Drained_NoWait(f) == TRUE

\* <-donec, line 234, returns: the goroutine has closed donec.
Drained(f) == f.task = "done"

\* Lines 234-235, and the invocation goes on to line 249.
RunDrained ==
    /\ fault = ""
    /\ stack # << >>
    /\ Top.op = "Run"
    /\ Top.pc = "draining"
    /\ Drained(Top)
    /\ FailureProtocol(CtxDoneResult(Top), retries, 1)
    /\ UNCHANGED <<cli, cn, lastRet, hist, files, ops>>
    /\ UNCHANGED peer

----------------------------------------------------------------------------
\* One invocation of Send (lines 296-373) or Download (lines 375-451).

\* "lookpath": scpCmd.LookPath("scp") fails; "chmod": os.Chmod fails;
\* "started": cmd.CombinedOutput() starts the tool; "expired": it is called
\* under a context that is done already and starts nothing.
TransferOutcomes == {"lookpath", "chmod", "started", "expired"}

\* The tool starts under a context that is not done; a deadline can have
\* passed by the time cmd.CombinedOutput() is called, a lifetime is
\* cancelled or not.
TransferPossible(f, out) ==
    IF out = "started" THEN ~ParentCancelled(ctx)
    ELSE IF out = "expired" THEN DerivedDone(f.timeout, ctx)
    ELSE TRUE

\* The returns of lines 318-325 (397-404).
TransferReturnsEarly(out) == out \in {"lookpath", "chmod"}

\* Lines 299-335 (378-413): the ledger is seeded, the context derived, the
\* tool looked up, the key file's mode set and the tool started.  A command
\* under a context that is already done is not started: CombinedOutput
\* returns the context's error.
Transfer(op) ==
    /\ fault = ""
    /\ stack # << >>
    /\ Top.pc = "entry"
    /\ Top.op = op
    /\ LET f == Top
           m == Seed(retries, f.key, f.retries)
       IN  IF ctx = "nil"
           THEN \* context.WithCancel(sh.ctx) on a nil parent
                /\ fault' = "Transfer: sh.ctx is nil"
                /\ retries' = m
                /\ UNCHANGED <<ctx, conn, stack, stats>>
           ELSE \E out \in TransferOutcomes :
                /\ TransferPossible(f, out)
                /\ IF TransferReturnsEarly(out)
                   THEN EarlyReturn(f, m, AttemptErr(out))
                   ELSE IF out = "expired"
                   THEN FailureProtocol([f EXCEPT !.err = Err("ctx")], m, 0)
                   ELSE /\ retries' = m
                        /\ stack' = SetTop(stack, [f EXCEPT !.pc = "running"])
                        /\ UNCHANGED <<ctx, conn, fault, stats>>
    /\ UNCHANGED <<cli, cn, lastRet, hist, files, ops>>
    /\ UNCHANGED peer

SendAttempt == Transfer("Send")

DownloadAttempt == Transfer("Download")

\* A variant of Copied that copies in the opposite direction.
Copied_Reversed(op, k, fs) ==
    IF op = "Send" THEN [fs EXCEPT ![k] = fs.remote]
    ELSE [fs EXCEPT !.remote = fs[k]]

\* What a successful scp leaves: Send, lines 327-333, copies localPath to
\* user@host:remotePath; Download, lines 405-411, copies
\* user@host:remotePath to localPath.
Copied(op, k, fs) ==
    IF op = "Send" THEN [fs EXCEPT !.remote = fs[k]]
    ELSE [fs EXCEPT ![k] = fs.remote]

\* cmd.CombinedOutput() returns, line 335 (413), and the invocation goes on
\* to line 354 (432).
TransferEnds ==
    /\ fault = ""
    /\ stack # << >>
    /\ Top.op \in {"Send", "Download"}
    /\ Top.pc = "running"
    /\ \E r \in ExecOutcomes :
         /\ files' = IF r = "ok" THEN Copied(Top.op, Top.key, files) ELSE files
         /\ FailureProtocol([Top EXCEPT !.out = Output, !.err = AttemptErr(r)],
                            retries, 1)
    /\ UNCHANGED <<cli, cn, lastRet, hist, ops>>
    /\ UNCHANGED peer

\* The derived context is done while the tool runs: the tool is killed and
\* cmd.CombinedOutput() returns an error.
TransferKilled ==
    /\ fault = ""
    /\ stack # << >>
    /\ Top.op \in {"Send", "Download"}
    /\ Top.pc = "running"
    /\ DerivedDone(Top.timeout, ctx)
    /\ FailureProtocol([Top EXCEPT !.out = Output, !.err = Err("ctx")], retries, 1)
    /\ UNCHANGED <<cli, cn, lastRet, hist, files, ops>>
    /\ UNCHANGED peer

----------------------------------------------------------------------------
\* Another flow calls Close(), lines 172-180, at any time.  Its two
\* statements are not synchronised with the caller's flow: sh.cancel(),
\* line 173.
CloseCancels ==
    /\ fault = ""
    /\ peer.pc = "idle"
    /\ fault' = CancelFault
    /\ ctx' = Cancelled(ctx)
    /\ peer' = IF CancelFault = "" THEN [peer EXCEPT !.pc = "closing"] ELSE peer
    /\ UNCHANGED <<conn, cli, retries, stack, cn, stats, lastRet, hist, files,
                   ops>>

\* sh.conn.Close(), line 174, and the return of that Close().
CloseCloses ==
    /\ fault = ""
    /\ peer.pc = "closing"
    /\ fault' = ConnCloseFault
    /\ conn' = ClosedConn(conn)
    /\ stack' = IF ConnCloseFault = "" THEN Closing(stack) ELSE stack
    /\ peer' = [peer EXCEPT !.pc = "idle"]
    /\ UNCHANGED <<ctx, cli, retries, cn, stats, lastRet, hist, files, ops>>

----------------------------------------------------------------------------
\* The reconnect loop, lines 255-258 (361-364, 439-442): one iteration, the
\* decrement and the Connect() it calls, then the loop test.
Reconnect ==
    /\ fault = ""
    /\ stack # << >>
    /\ Top.pc = "reconnect"
    /\ stats.connects < MaxConnects
    /\ retries' = LoopStep(Top.op, retries, Top.key)
    /\ ctx' = "live"
    /\ \E run \in LoopRuns :
         LET r == ConnectCall(run[1], run[2], run[3], run[4]) IN
         /\ conn' = r.conn
         /\ cli' = r.cli
         /\ fault' = r.fault
         /\ IF r.fault = ""
            THEN /\ stats' = [stats EXCEPT
                                !.connects = @ + 1,
                                !.tape = Append(@, Connected(r.cn.err))]
                 /\ cn' = Activation(stack, r.cn)
                 /\ stack' = ConnectReturns(stack, r.cn.err)
            ELSE /\ stats' = [stats EXCEPT !.connects = @ + 1]
                 /\ cn' = r.cn
                 /\ stack' = stack
    /\ UNCHANGED <<lastRet, hist, files, ops>>
    /\ UNCHANGED peer

\* A variant of Retried in which the caller keeps its own output.
Retried_KeepOutput(g, f) == [g EXCEPT !.pc = "ret", !.err = f.err]

\* out, err = sh.Run(cmd, opts...), line 260 (366, 444): the invocation g
\* takes what the invocation f it called has returned.
Retried(g, f) == [g EXCEPT !.pc = "ret", !.out = f.out, !.err = f.err]

\* An invocation returns (line 266, 372, 450, or an early return): to the
\* caller, or to the invocation that called it at line 260 (366, 444), which
\* takes its result, runs lines 263-266 and returns in turn.
Return ==
    /\ fault = ""
    /\ stack # << >>
    /\ Top.pc = "ret"
    /\ LET f == Top
           rest == SubSeq(stack, 1, Len(stack) - 1)
       IN  IF rest = << >>
           THEN /\ stack' = rest
                /\ lastRet' = RetOf(f)
                /\ hist' = [hist EXCEPT ![f.key] = Ended(f.err)]
                /\ UNCHANGED retries
           ELSE LET g == rest[Len(rest)] IN
                /\ retries' = Leaves(g.op, retries, g.key, f.err)
                /\ stack' = SetTop(rest, Retried(g, f))
                /\ UNCHANGED <<lastRet, hist>>
    /\ UNCHANGED <<ctx, conn, cli, cn, fault, stats, files, ops>>
    /\ UNCHANGED peer

----------------------------------------------------------------------------
\* Connect() one wait at a time, for a client that another flow uses too.
\* cn is the activation of the one Connect() in progress: the caller's, the
\* one of the reconnect loop of the topmost invocation, or the second
\* flow's.

ConnectOwner ==
    IF peer.pc = "connecting" THEN "peer"
    ELSE IF stack # << >> THEN "loop"
    ELSE "caller"

\* Connect() has come to the activation c, the invocations being stk: it
\* goes on, or it has returned (c.pc = "done") to the caller, to the loop of
\* lines 255-258 or to the second flow's; pr is where the other flow is.
ConnectGoesOn(c, stk, pr) ==
    IF c.pc # "done"
    THEN /\ cn' = c
         /\ stack' = stk
         /\ peer' = pr
         /\ UNCHANGED <<stats, lastRet>>
    ELSE IF ConnectOwner = "caller"
    THEN /\ cn' = c
         /\ stack' = stk
         /\ lastRet' = ConnectRet(c.err)
         /\ peer' = pr
         /\ UNCHANGED stats
    ELSE IF ConnectOwner = "loop"
    THEN /\ cn' = IdleConnect
         /\ stack' = SetTop(stk, [stk[Len(stk)] EXCEPT
                                    !.pc = IF IsNil(c.err) THEN "sleep"
                                           ELSE "reconnect"])
         /\ stats' = [stats EXCEPT !.tape = Append(@, Connected(c.err))]
         /\ peer' = pr
         /\ UNCHANGED lastRet
    ELSE /\ cn' = IdleConnect
         /\ stack' = stk
         /\ peer' = [pr EXCEPT !.pc = IF IsNil(c.err) THEN "sleep"
                                      ELSE "reconnect"]
         /\ UNCHANGED <<stats, lastRet>>

\* Lines 83-96 of a Connect() the caller calls.
ConnectStarts ==
    /\ \E kout \in KeyOutcomes :
         /\ cn' = ConnectEntry(kout)
         /\ lastRet' = IF kout = "ok" THEN NoRet ELSE ConnectRet(KeyErr(kout))
    /\ ctx' = "live"
    /\ stats' = NoStats
    /\ ops' = ops + 1
    /\ UNCHANGED <<conn, cli, retries, stack, fault, hist, files>>
    /\ UNCHANGED peer

ConnectBegins == MayCall /\ ConnectStarts

ConnectBeginsTimed == MayCallTimed /\ ConnectStarts

\* Lines 256-257 of the reconnect loop (362-363, 440-441) and lines 83-96 of
\* the Connect() it calls.
LoopConnects ==
    /\ fault = ""
    /\ stack # << >>
    /\ Top.pc = "reconnect"
    /\ stats.connects < MaxConnects
    /\ retries' = LoopStep(Top.op, retries, Top.key)
    /\ ctx' = "live"
    /\ \E kout \in KeyOutcomes :
         IF kout = "ok"
         THEN /\ cn' = ConnectEntry(kout)
              /\ stack' = SetTop(stack, [Top EXCEPT !.pc = "connecting"])
              /\ stats' = [stats EXCEPT !.connects = @ + 1]
         ELSE /\ cn' = IdleConnect
              /\ stack' = stack
              /\ stats' = [stats EXCEPT
                             !.connects = @ + 1,
                             !.tape = Append(@, Connected(KeyErr(kout)))]
    /\ UNCHANGED <<conn, cli, fault, lastRet, hist, files, ops>>
    /\ UNCHANGED peer

\* The select of lines 98-102, and on its default case lines 104-106 up to
\* the call of d.DialContext.
DialBegins ==
    /\ fault = ""
    /\ cn.pc = "dial"
    /\ IF StopsAtTop(ctx)
       THEN ConnectGoesOn(DialStopped(cn), stack, peer)
       ELSE ConnectGoesOn(DialStarted(cn), stack, peer)
    /\ UNCHANGED <<ctx, conn, cli, retries, fault, hist, files, ops>>

\* d.DialContext returns, lines 106-131, and time.Sleep is called after a
\* failure.
DialEnds ==
    /\ fault = ""
    /\ cn.pc = "dialing"
    /\ \E out \in DialOutcomes :
         /\ conn' = DialedConn(out)
         /\ cli' = Detach(cli, conn)
         /\ ConnectGoesOn(DialReturned(cn, out), stack, peer)
    /\ UNCHANGED <<ctx, retries, fault, hist, files, ops>>

\* d.DialContext returns and line 106 writes sh.conn while the other flow's
\* Close() reads it at line 174, without synchronisation: the read takes one
\* word of each value.
DialEndsTorn ==
    /\ fault = ""
    /\ cn.pc = "dialing"
    /\ peer.pc = "closing"
    /\ \E out \in DialOutcomes, t \in TornReads :
         /\ TornPossible(conn, DialedConn(out))
         /\ fault' = TornFault(t)
         /\ conn' = DialedConn(out)
         /\ cli' = Detach(cli, conn)
         /\ ConnectGoesOn(DialReturned(cn, out), stack,
                          [peer EXCEPT !.pc = "idle"])
    /\ UNCHANGED <<ctx, retries, hist, files, ops>>

\* time.Sleep returns, lines 132-136.
DialSleeps ==
    /\ fault = ""
    /\ cn.pc = "sleeping"
    /\ ConnectGoesOn(Slept(cn), stack, peer)
    /\ UNCHANGED <<ctx, conn, cli, retries, fault, hist, files, ops>>

\* The handshake, lines 149-169.  It does not succeed on a connection that
\* Close() has closed.
HandshakeStep ==
    /\ fault = ""
    /\ cn.pc = "handshake"
    /\ \E hout \in HandshakeOutcomes :
         /\ hout = "ok" => conn = "open"
         /\ fault' = HandshakeFault(hout)
         /\ cli' = IF hout = "ok" THEN "cur" ELSE cli
         /\ ConnectGoesOn(HandshakeAttempt(cn, hout),
                          IF hout = "ok" THEN Superseding(stack) ELSE stack,
                          peer)
    /\ UNCHANGED <<ctx, conn, retries, hist, files, ops>>

\* time.Sleep(ret.retryInterval) returns, line 259 (365, 443), and the
\* operation is called again, line 260 (366, 444).
LoopSleeps ==
    /\ fault = ""
    /\ stack # << >>
    /\ Top.pc = "sleep"
    /\ stack' = Append(SetTop(stack, [Top EXCEPT !.pc = "await"]),
                       Frame(CalledAgain(Top.op), Top.key, Top.retries,
                             Top.timeout, FALSE))
    /\ UNCHANGED <<ctx, conn, cli, retries, cn, fault, stats, lastRet, hist,
                   files, ops>>
    /\ UNCHANGED peer

----------------------------------------------------------------------------
\* A second flow that calls Run, with a key of its own, while an attempt of
\* the caller's call is in flight.  Its invocations are not kept on a stack:
\* the invocation it is in is the one of line 260 of the one before, and its
\* session is not followed.  Nothing orders its accesses of sh.retries with
\* those of the caller's call: see MapHits.

PeerKey == "cmd2"

\* The caller calls Connect() and then Run once, without a retry budget: the
\* call the second flow can join.  What the caller does after that call is
\* not followed.
MayCallTwo == AtCaller /\ ops < MaxFlightOps /\ peer.pc = "idle"

ConnectBeginsTwo == MayCallTwo /\ hist = NoHist /\ ConnectStarts

CallRunTwo ==
    /\ MayCallTwo
    /\ hist = NoHist
    /\ \E k \in RunKeys :
         stack' = <<Frame("Run", k, 0, 0, ~Has(retries, k))>>
    /\ cn' = IdleConnect
    /\ lastRet' = NoRet
    /\ stats' = NoStats
    /\ ops' = ops + 1
    /\ UNCHANGED <<ctx, conn, cli, retries, fault, hist, files, peer>>

\* sh.retries, line 66, is a plain map that both calls read and write
\* without a lock.  The accesses of lines 187-188: the read, and the write
\* when the key is absent.
SeedAccess(m, k) == IF Has(m, k) THEN {"read"} ELSE {"read", "write"}

\* The access of lines 249-265 with the error e of the attempt: the read of
\* line 251, or the delete of line 264.
EndAccess(e) == IF IsNil(e) THEN {"write"} ELSE {"read"}

\* The accesses of line 256, sh.retries[key]--.
LoopAccess == {"read", "write"}

\* The accesses the caller's Run makes in the step it is about to take:
\* lines 187-188 at its entry; lines 249-265 once its attempt has ended,
\* with the error of the goroutine or, after line 235, with ctx.Err().
CallerAccess ==
    IF stack = << >> \/ fault # "" THEN {}
    ELSE IF Top.pc = "entry" THEN SeedAccess(retries, Top.key)
    ELSE IF Top.pc = "running" /\ Top.task = "done" THEN EndAccess(Top.err)
    ELSE IF Top.pc = "draining" /\ Drained(Top) THEN EndAccess(Err("ctx"))
    ELSE {}

\* What the Go runtime reports when it finds the map written by one
\* goroutine while another reads or writes it.
MapFault(a, b) ==
    IF a = "write" /\ b = "write" THEN "concurrent map writes"
    ELSE "concurrent map read and map write"

\* How the accesses acc of a step of the second Run can go: "" when they do
\* not meet an access of the caller's Run, or come before or after it; the
\* report of the runtime, which ends the program, when they meet one and
\* one of the two is a write.
MapHits(acc) ==
    {""} \cup {MapFault(x[1], x[2]) :
                 x \in {y \in CallerAccess \X acc : "write" \in {y[1], y[2]}}}

\* Lines 185-194 of the second Run.
PeerCall ==
    /\ fault = ""
    /\ stack # << >>
    /\ Top.pc = "running"
    /\ peer.pc = "idle"
    /\ \E n \in 0..MaxRetries, hit \in MapHits(SeedAccess(retries, PeerKey)) :
         IF hit = ""
         THEN /\ retries' = Seed(retries, PeerKey, n)
              /\ peer' = [peer EXCEPT !.pc = "opening"]
              /\ UNCHANGED fault
         ELSE /\ fault' = hit
              /\ UNCHANGED <<retries, peer>>
    /\ UNCHANGED <<ctx, conn, cli, stack, cn, stats, lastRet, hist, files,
                   ops>>

\* Lines 195-230 of an invocation of the second Run: its session is opened
\* and its command started, or it returns the error.
PeerOpens ==
    /\ fault = ""
    /\ peer.pc = "opening"
    /\ \E out \in RunOutcomes :
         /\ out # "session" => CliOpen
         /\ peer' = [peer EXCEPT !.pc = IF RunReturnsEarly(out) THEN "done"
                                        ELSE "running"]
    /\ UNCHANGED <<ctx, conn, cli, retries, stack, cn, fault, stats, lastRet,
                   hist, files, ops>>

\* Lines 231-254 and 263-266 of the second Run: its attempt ends, and it
\* returns or calls sh.Close(), of which sh.cancel(), line 173, runs.
PeerEnds ==
    /\ fault = ""
    /\ peer.pc = "running"
    /\ \E r \in ExecOutcomes : \E hit \in MapHits(EndAccess(AttemptErr(r))) :
         IF hit # ""
         THEN /\ fault' = hit
              /\ UNCHANGED <<ctx, retries, peer>>
         ELSE IF RunRetries(retries, PeerKey, AttemptErr(r))
         THEN /\ fault' = CancelFault
              /\ ctx' = Cancelled(ctx)
              /\ peer' = [peer EXCEPT !.pc = "closing"]
              /\ UNCHANGED retries
         ELSE /\ retries' = RunLeaves(retries, PeerKey, AttemptErr(r))
              /\ peer' = [peer EXCEPT !.pc = "done"]
              /\ UNCHANGED <<ctx, fault>>
    /\ UNCHANGED <<conn, cli, stack, cn, stats, lastRet, hist, files, ops>>

\* sh.conn.Close(), line 174, of the Close() of the second Run, which then
\* enters the reconnect loop, line 254.
PeerCloses ==
    /\ fault = ""
    /\ peer.pc = "closing"
    /\ fault' = ConnCloseFault
    /\ conn' = ClosedConn(conn)
    /\ stack' = IF ConnCloseFault = "" THEN Closing(stack) ELSE stack
    /\ peer' = [peer EXCEPT !.pc = "reconnect"]
    /\ UNCHANGED <<ctx, cli, retries, cn, stats, lastRet, hist, files, ops>>

\* Lines 256-257 of the second Run and lines 83-96 of the Connect() it
\* calls.  The loop is followed until the count has gone MaxConnects below
\* zero.
PeerConnects ==
    /\ fault = ""
    /\ peer.pc = "reconnect"
    /\ Get(retries, PeerKey) + MaxConnects > 0
    /\ \E kout \in KeyOutcomes, hit \in MapHits(LoopAccess) :
         IF hit # ""
         THEN /\ fault' = hit
              /\ UNCHANGED <<ctx, retries, stack, cn, peer>>
         ELSE /\ retries' = RunLoop(retries, PeerKey)
              /\ ctx' = "live"
              /\ stack' = Renewing(stack, ctx)
              /\ cn' = IF kout = "ok" THEN ConnectEntry(kout) ELSE IdleConnect
              /\ peer' = IF kout = "ok" THEN [peer EXCEPT !.pc = "connecting"]
                         ELSE peer
              /\ UNCHANGED fault
    /\ UNCHANGED <<conn, cli, stats, lastRet, hist, files, ops>>

\* time.Sleep(ret.retryInterval) returns, line 259, and the second Run is
\* called again, line 260: lines 185-194 of that invocation, which finds
\* its key in the map.
PeerSleeps ==
    /\ fault = ""
    /\ peer.pc = "sleep"
    /\ \E hit \in MapHits(SeedAccess(retries, PeerKey)) :
         /\ fault' = hit
         /\ peer' = IF hit = "" THEN [peer EXCEPT !.pc = "opening"] ELSE peer
    /\ UNCHANGED <<ctx, conn, cli, retries, stack, cn, stats, lastRet, hist,
                   files, ops>>

\* One calling flow whose calls carry no timeout option.
Next ==
    \/ CallConnect
    \/ CallClose
    \/ CallRun
    \/ CallSend
    \/ CallDownload
    \/ RunAttempt
    \/ TaskCompletes
    \/ RunTaskDone
    \/ RunCtxDone
    \/ RunDrained
    \/ SendAttempt
    \/ DownloadAttempt
    \/ TransferEnds
    \/ Reconnect
    \/ Return

Spec == Init /\ [][Next]_vars

\* One calling flow whose calls carry a timeout option or none, and another
\* flow that calls Close() at any time.
NextFlight ==
    \/ ConnectBeginsTimed
    \/ CallRunTimed
    \/ CallSendTimed
    \/ CallDownloadTimed
    \/ RunSeeds
    \/ RunOpens
    \/ RunStarts
    \/ TaskCompletes
    \/ RunTaskDone
    \/ RunCtxDone
    \/ RunDrained
    \/ SendAttempt
    \/ DownloadAttempt
    \/ TransferEnds
    \/ TransferKilled
    \/ CloseCancels
    \/ CloseCloses
    \/ DialEndsTorn
    \/ LoopConnects
    \/ DialBegins
    \/ DialEnds
    \/ DialSleeps
    \/ HandshakeStep
    \/ LoopSleeps
    \/ Return

SpecFlight == Init /\ [][NextFlight]_vars

\* One calling flow that sends one local file and downloads into another.
NextCopy ==
    \/ CallConnect
    \/ CallClose
    \/ CallSend
    \/ CallDownloadCopy
    \/ SendAttempt
    \/ DownloadAttempt
    \/ TransferEnds
    \/ Reconnect
    \/ Return

SpecCopy == Init /\ [][NextCopy]_vars

\* One calling flow that calls Connect() and Close(), and another flow that
\* calls Close() at any time.
NextDial ==
    \/ ConnectBegins
    \/ DialBegins
    \/ DialEnds
    \/ DialSleeps
    \/ HandshakeStep
    \/ CloseCancels
    \/ CloseCloses
    \/ DialEndsTorn
    \/ CallClose

SpecDial == Init /\ [][NextDial]_vars

\* One calling flow that calls Connect() and Run, and a second flow that
\* calls Run while an attempt of the first is in flight.
NextTwo ==
    \/ ConnectBeginsTwo
    \/ CallRunTwo
    \/ RunSeeds
    \/ RunOpens
    \/ RunStarts
    \/ TaskCompletes
    \/ RunTaskDone
    \/ RunCtxDone
    \/ RunDrained
    \/ Return
    \/ PeerCall
    \/ PeerOpens
    \/ PeerEnds
    \/ PeerCloses
    \/ PeerConnects
    \/ DialBegins
    \/ DialEnds
    \/ DialSleeps
    \/ HandshakeStep
    \/ PeerSleeps

SpecTwo == Init /\ [][NextTwo]_vars

----------------------------------------------------------------------------
\* Properties.

Transfers == {"Send", "Download"}
Operations == {"Run"} \cup Transfers

\* The errors of an execution attempt of Run: the command's own error, or
\* the context's error when the deadline or the cancellation came first.
ExecutionFailures == {"exec", "ctx"}

\* The last top-level call was op and has returned to the caller.
Returned(op) == AtCaller /\ lastRet.op = op

\* C1: a Run call with retries = 0 on a key without a ledger entry whose
\* command fails returns that failure: it calls neither Close() nor
\* Connect(), it does not call Run again, and the command ran once.
C1_NoRetryAtZero ==
    /\ (stack # << >> /\ fault = "" /\ stack[1].op = "Run"
            /\ stack[1].retries = 0 /\ stack[1].fresh)
        => /\ Len(stack) = 1
           /\ stack[1].pc \in {"entry", "running", "draining", "ret"}
           /\ stats.closes = 0
           /\ stats.connects = 0
           /\ stats.execs <= 1
    /\ (Returned("Run") /\ lastRet.retries = 0 /\ lastRet.fresh
            /\ lastRet.err.kind \in ExecutionFailures)
        => /\ stats.closes = 0
           /\ stats.connects = 0
           /\ stats.execs = 1

C1_Witness ==
    /\ Returned("Run")
    /\ lastRet.retries = 0
    /\ lastRet.fresh
    /\ lastRet.err.kind = "exec"
    /\ stats.execs = 1

\* C2: after a Run call with retries = 0 has returned an execution failure,
\* the ledger has no entry for the call's key.
C2_NoEntryAfterFailureAtZero ==
    (Returned("Run") /\ lastRet.retries = 0
        /\ lastRet.err.kind \in ExecutionFailures)
    => ~Has(retries, lastRet.key)

\* C3: when Run, Send or Download returns a nil error, on the first attempt
\* or after retries, to the caller or to the invocation that called it again,
\* the ledger has no entry for the call's key.
C3_NoEntryAfterSuccess ==
    /\ (stack # << >> /\ Top.pc = "ret" /\ IsNil(Top.err))
        => ~Has(retries, Top.key)
    /\ (AtCaller /\ lastRet.op \in Operations /\ IsNil(lastRet.err))
        => ~Has(retries, lastRet.key)

C3_Witness ==
    /\ Returned("Send")
    /\ IsNil(lastRet.err)
    /\ lastRet.retries = 2
    /\ stats.execs = 2
    /\ stats.connects = 1

\* C4: a Run call with budget retries = n on a key without a ledger entry
\* comes to an end when every attempt fails and every reconnect loop gets a
\* successful Connect(): it calls itself again at most n times, so at most
\* n + 1 invocations are ever on the stack.
C4_RecursionBottomsOut ==
    (stack # << >> /\ stack[1].op = "Run" /\ stack[1].fresh)
    => Len(stack) <= stack[1].retries + 1

\* C5: Send or Download that fails because the secure-copy executable is not
\* found leaves the ledger without an entry for the call's key.
C5_LookupFailureSeedsNothing ==
    (AtCaller /\ lastRet.op \in Transfers /\ lastRet.fresh
        /\ lastRet.err.kind = "lookpath")
    => ~Has(retries, lastRet.key)

\* The executable lookup or the permission change of an invocation of Send
\* or Download fails in this step.
PreconditionFailure ==
    /\ stack # << >>
    /\ Top.pc = "entry"
    /\ Top.op \in Transfers
    /\ Len(stack') = Len(stack)
    /\ stack'[Len(stack')].err.kind \in {"lookpath", "chmod"}

\* C6: when the executable lookup or the permission change fails, Send and
\* Download return that error in the same step, whatever the budget: the
\* tool is not invoked, Close() and Connect() are not called, and the
\* invocation does not call itself again.
C6_PreconditionFailureReturnsAtOnce ==
    [][PreconditionFailure
        => /\ stack'[Len(stack')].pc = "ret"
           /\ stats'.execs = stats.execs
           /\ stats'.closes = stats.closes
           /\ stats'.connects = stats.connects
           /\ ctx' = ctx
           /\ conn' = conn
           /\ cli' = cli
           /\ cn' = cn
           /\ fault' = fault]_vars

C6_Witness ==
    /\ AtCaller
    /\ lastRet.op \in Transfers
    /\ lastRet.err.kind = "chmod"
    /\ lastRet.retries = 2
    /\ stats.execs = 1
    /\ stats.connects = 1

\* The channel: sh.conn with sh.cli.
ChannelAbsent ==
    \/ conn = "nil" /\ cli = "nil"
    \/ conn = "closed" /\ cli = "cur"

ChannelEstablished == conn = "open" /\ cli = "cur"

\* C7: whenever control is with the caller the channel is fully absent (no
\* connection and no handle, or both torn down by Close()) or fully
\* established (a dialed, open connection and the handle made for it).
C7_ChannelAbsentOrEstablished ==
    AtCaller => (ChannelAbsent \/ ChannelEstablished)

\* C8: one Connect() makes at most 15 dial attempts; when all 15 fail it
\* returns the error of the 15th attempt and makes no handshake; a handshake
\* is made only after a dial attempt that succeeded.
C8_DialAttemptsBounded ==
    /\ cn.dials <= 15
    /\ cn.pc = "handshake" => (IsNil(cn.err) /\ cn.dials = cn.i + 1)
    /\ (cn.pc = "done" /\ cn.dials = 15 /\ cn.i = 15)
        => (cn.err = DialErr(15) /\ cn.hss = 0)
    /\ (cn.pc = "done" /\ cn.err.kind = "dial")
        => (cn.dials = 15 /\ cn.i = 15)

C8_Witness ==
    /\ AtCaller
    /\ lastRet.op = "Connect"
    /\ lastRet.err = DialErr(15)
    /\ cn.dials = 15
    /\ cn.hss = 0

\* C9: when the first k dial attempts fail (k in 0..14), attempt k + 1
\* succeeds and the handshake succeeds, Connect() returns nil after k + 1
\* dial attempts and k sleeps.  cn.i is k: the passes of the loop that failed.
C9_SleepsEqualFailedDials ==
    /\ cn.pc = "handshake"
        => (cn.i \in 0..14 /\ cn.dials = cn.i + 1 /\ cn.sleeps = cn.i)
    /\ (cn.pc = "done" /\ cn.hss = 1)
        => /\ cn.i \in 0..14
           /\ cn.dials = cn.i + 1
           /\ cn.sleeps = cn.i
    /\ (cn.pc = "done" /\ IsNil(cn.err)) => cn.hss = 1

C9_Witness ==
    /\ AtCaller
    /\ lastRet.op = "Connect"
    /\ IsNil(lastRet.err)
    /\ cn.i = 3
    /\ cn.dials = 4
    /\ cn.sleeps = 3

\* C10: in one Connect() the key load, the key parse and the handshake are
\* each attempted at most once, and a failure of one of them ends the call:
\* no dial attempt after a key failure, no parse after a failed load, no
\* further dial or handshake after a failed handshake.
C10_KeyAndHandshakeFailuresAreFinal ==
    /\ cn.loads <= 1
    /\ cn.parses <= 1
    /\ cn.hss <= 1
    /\ cn.err.kind = "readkey" => cn.parses = 0
    /\ cn.err.kind \in {"readkey", "parsekey"}
        => (cn.pc = "done" /\ cn.dials = 0 /\ cn.hss = 0)
    /\ cn.err.kind = "handshake"
        => (cn.pc = "done" /\ cn.hss = 1 /\ cn.dials = cn.i + 1)

----------------------------------------------------------------------------
\* Attempts in flight.

\* The topmost invocation after the step.
NewTop == stack'[Len(stack)]

\* C11: in an attempt of Run, once the select has taken the context's
\* branch the session is closed; the attempt goes on to the failure protocol
\* only when the goroutine has completed, and then with no output and the
\* context's error, whatever the goroutine stored.
C11_CancelledAttemptDiscardsTaskResult ==
    [][(stack # << >> /\ fault = "" /\ Top.op = "Run")
        => /\ (Top.pc = "running" /\ NewTop.pc = "draining")
                => NewTop.sess = "closed"
           /\ (Top.pc = "draining" /\ NewTop.pc # "draining")
                => /\ Top.task = "done"
                   /\ NewTop.sess = "closed"
                   /\ NewTop.out = 0
                   /\ NewTop.err = Err("ctx")]_vars

C11_Witness ==
    /\ Returned("Run")
    /\ lastRet.err.kind = "ctx"
    /\ lastRet.out = 0
    /\ stats.execs = 1

\* C12: an attempt in flight with timeout = 0 ends by the completion of the
\* command or tool, or else the client's lifetime has been cancelled.
C12_NoDeadlineAtZeroTimeout ==
    [][(stack # << >> /\ fault = "" /\ Top.pc = "running"
            /\ Top.timeout = 0 /\ NewTop.pc # "running")
        => IF ctx = "cancelled" THEN TRUE
           ELSE IF Top.op = "Run"
           THEN Top.task = "done" /\ NewTop.pc # "draining"
           ELSE NewTop.err.kind # "ctx"]_vars

C12_Witness ==
    /\ stack # << >>
    /\ Top.op \in Transfers
    /\ Top.timeout = 0
    /\ Top.pc = "ret"
    /\ Top.err.kind = "ctx"
    /\ Top.out = 1

\* C13: while an attempt is in flight and the client's lifetime is
\* cancelled, the context's branch of the attempt can be taken, whatever the
\* timeout; and an attempt of Run that has taken it, or has ended, has
\* closed its session.
C13_LifetimeCancelsAttempt ==
    /\ (stack # << >> /\ fault = "" /\ Top.pc = "running" /\ ctx = "cancelled")
        => IF Top.op = "Run" THEN ENABLED RunCtxDone ELSE ENABLED TransferKilled
    /\ \A i \in 1..Len(stack) :
         (stack[i].op = "Run" /\ stack[i].task # "none"
              /\ stack[i].pc # "running")
         => stack[i].sess = "closed"

C13_Witness ==
    /\ stack # << >>
    /\ Top.op = "Run"
    /\ Top.timeout = 1
    /\ Top.pc = "draining"
    /\ Top.sess = "closed"
    /\ ctx = "cancelled"
    /\ conn = "closed"

----------------------------------------------------------------------------
\* Calls that follow one another, and calls that retry.

\* C14: when the last Run with a command has returned a nil error, the next
\* Run with that command finds no ledger entry and starts its first attempt
\* with a ledger entry equal to its own retries option.
C14_SuccessLeavesNoRetryState ==
    (Len(stack) = 1 /\ stack[1].op = "Run" /\ stack[1].pc = "running"
        /\ hist[stack[1].key] = "ok")
    => /\ stack[1].fresh
       /\ Has(retries, stack[1].key)
       /\ retries[stack[1].key] = stack[1].retries

C14_Witness ==
    /\ Len(stack) = 1
    /\ stack[1].op = "Run"
    /\ stack[1].pc = "running"
    /\ hist[stack[1].key] = "ok"
    /\ stack[1].retries = 2
    /\ retries[stack[1].key] = 2

\* C15: what Run, Send or Download returns to the caller is the output and
\* the error of the invocation that ended last; a Run with retries = 2 on a
\* key without an entry whose first execution fails, whose reconnect loop
\* calls Connect() once and whose second execution succeeds returns the
\* second execution's output and a nil error and leaves no ledger entry.
C15_ReturnsLastAttempt ==
    /\ (AtCaller /\ lastRet.op \in Operations)
        => /\ lastRet.out = stats.last.out
           /\ lastRet.err = stats.last.err
    /\ (Returned("Run") /\ lastRet.retries = 2 /\ lastRet.fresh
            /\ stats.execs = 2 /\ stats.connects = 1 /\ IsNil(lastRet.err))
        => /\ lastRet.out = 2
           /\ ~Has(retries, lastRet.key)

C15_Witness ==
    /\ Returned("Run")
    /\ lastRet.retries = 2
    /\ lastRet.fresh
    /\ stats.execs = 2
    /\ stats.connects = 1
    /\ IsNil(lastRet.err)
    /\ lastRet.out = 2

\* C16: an invocation in its reconnect loop leaves the loop only in a step
\* in which Connect() has established the channel, and then by calling the
\* operation again; a step in which Connect() fails leaves it in the loop
\* with one more Connect() invocation made.
C16_ReconnectLoopExitsOnlyOnSuccess ==
    [][(stack # << >> /\ fault = "" /\ Top.pc = "reconnect")
        => /\ stats'.connects = stats.connects + 1
           /\ IF cli' = "cur" /\ conn' = "open"
              THEN /\ Len(stack') = Len(stack) + 1
                   /\ NewTop.pc = "await"
              ELSE stack' = stack]_vars

C16_Witness ==
    /\ Len(stack) = 1
    /\ Top.pc = "reconnect"
    /\ stats.connects = 3
    /\ stats.execs = 1
    /\ fault = ""

\* C17: once the last Send of the first local file and a later Download
\* into the second local file have both returned a nil error, the second
\* local file has the content of the first, which the transfers have not
\* changed.
C17_SendThenDownloadRoundTrip ==
    /\ (\E k \in PathKeys : hist[k] = "ok")
        => /\ files.path = InitFiles.path
           /\ files.remote = files.path
    /\ (Returned("Download") /\ IsNil(lastRet.err) /\ lastRet.key \in CopyPaths
            /\ \E k \in PathKeys : hist[k] = "ok")
        => files.path2 = files.path

C17_Witness ==
    /\ Returned("Download")
    /\ IsNil(lastRet.err)
    /\ lastRet.key \in CopyPaths
    /\ \E k \in PathKeys : hist[k] = "ok"
    /\ files.path2 = "A"
    /\ files.remote = "A"

----------------------------------------------------------------------------
\* The budget.

\* C18: every ledger entry is at least 0 and at most the retries option it
\* was seeded with.
C18_LedgerWithinSeed ==
    /\ \A k \in DOMAIN retries : retries[k] \in 0..MaxRetries
    /\ (stack # << >> /\ stack[1].fresh /\ Has(retries, stack[1].key))
        => retries[stack[1].key] <= stack[1].retries

\* C19: a call with retries = n on a key without a ledger entry executes
\* its command or tool at most n + 1 times.
C19_AtMostRetriesPlusOneExecutions ==
    /\ (stack # << >> /\ stack[1].fresh)
        => stats.execs <= stack[1].retries + 1
    /\ (AtCaller /\ lastRet.op \in Operations /\ lastRet.fresh)
        => stats.execs <= lastRet.retries + 1

\* C20: the first attempt of a top-level call runs with a ledger entry equal
\* to the call's retries option, and a top-level call with retries > 0 that
\* returns an execution failure has reconnected and executed again.
C20_BudgetIsRetriesOption ==
    /\ (Len(stack) = 1 /\ stack[1].pc = "running")
        => Get(retries, stack[1].key) = stack[1].retries
    /\ (AtCaller /\ lastRet.op \in Operations /\ lastRet.retries > 0
            /\ lastRet.err.kind \in ExecutionFailures)
        => /\ stats.connects >= 1
           /\ stats.execs >= 2

\* C21: the count of a ledger entry changes only in an iteration of the
\* reconnect loop of the invocation whose key it is, and there by exactly
\* one; every such iteration, whether its Connect() fails or succeeds, takes
\* one off the count.
C21_DecrementOncePerConnect ==
    [][/\ \A k \in Keys :
            (Has(retries, k) /\ Has(retries', k) /\ retries'[k] # retries[k])
            => /\ stack # << >>
               /\ Top.pc = "reconnect"
               /\ k = Top.key
               /\ retries'[k] = retries[k] - 1
               /\ stats'.connects = stats.connects + 1
       /\ (stack # << >> /\ fault = "" /\ Top.pc = "reconnect")
            => /\ Has(retries, Top.key)
               /\ Has(retries', Top.key)
               /\ retries'[Top.key] = retries[Top.key] - 1]_vars

C21_Witness ==
    /\ Len(stack) = 2
    /\ stack[1].fresh
    /\ stack[1].retries = 2
    /\ stack[2].pc = "entry"
    /\ stats.connects = 2
    /\ Has(retries, stack[1].key)
    /\ retries[stack[1].key] = 0

----------------------------------------------------------------------------
\* Sessions, attempts and Close().

\* C22: the invocations below the topmost one wait for the call they made:
\* their goroutine has completed and their session is not open; at most one
\* attempt is in flight, and each invocation but the first was called after
\* a Close() and a Connect() of the call.
C22_AttemptsSequential ==
    /\ \A i \in 1..(Len(stack) - 1) :
         /\ stack[i].pc = "await"
         /\ stack[i].task # "running"
         /\ stack[i].sess # "open"
    /\ stack # << >>
        => /\ stats.closes >= Len(stack) - 1
           /\ stats.connects >= Len(stack) - 1

C22_Witness ==
    /\ Len(stack) = 2
    /\ stack[1].op = "Run"
    /\ stack[1].err.kind = "ctx"
    /\ stack[1].task = "done"
    /\ stack[2].pc = "running"
    /\ stack[2].task = "running"

\* C23: an invocation of Run that returns has no session open.
C23_SessionClosedOnReturn ==
    \A i \in 1..Len(stack) :
        (stack[i].op = "Run" /\ stack[i].pc = "ret") => stack[i].sess # "open"

\* C26: when the attempt of a Run whose ledger entry is not 0 ends under a
\* lifetime that was cancelled while it was in flight, the invocation
\* returns: it does not enter the reconnect loop.
C26_NoReconnectAfterCallerClose ==
    [][(stack # << >> /\ fault = "" /\ Top.op = "Run"
            /\ Top.pc \in {"running", "draining"} /\ ctx = "cancelled"
            /\ Get(retries, Top.key) # 0
            /\ NewTop.pc \notin {"running", "draining"})
        => NewTop.pc = "ret"]_vars

\* C27: a Close() called by the caller ends without a fault.
C27_CloseNeverFaults ==
    lastRet.op = "Close" => fault = ""

\* The session of an invocation of Run cannot be opened, or an environment
\* variable cannot be applied, in this step.
SessionFailure ==
    /\ stack # << >>
    /\ Top.pc = "entry"
    /\ Top.op = "Run"
    /\ Len(stack') = Len(stack)
    /\ NewTop.err.kind \in {"session", "setenv"}

\* C28: when the session cannot be opened or an environment variable
\* cannot be applied, Run returns that error in the same step, whatever the
\* ledger holds: no execution, no Close(), no Connect(), and the ledger
\* entry is the one present at entry or else the one seeded.
C28_SessionFailureReturnsAtOnce ==
    [][SessionFailure
        => /\ NewTop.pc = "ret"
           /\ stats'.execs = stats.execs
           /\ stats'.closes = stats.closes
           /\ stats'.connects = stats.connects
           /\ ctx' = ctx
           /\ conn' = conn
           /\ cli' = cli
           /\ fault' = fault
           /\ Has(retries', Top.key)
           /\ retries'[Top.key] = IF Has(retries, Top.key)
                                  THEN retries[Top.key] ELSE Top.retries]_vars

C28_Witness ==
    /\ Returned("Run")
    /\ lastRet.err.kind = "setenv"
    /\ lastRet.retries = 2
    /\ lastRet.fresh
    /\ Has(retries, lastRet.key)
    /\ retries[lastRet.key] = 2
    /\ stats.closes = 0

----------------------------------------------------------------------------
\* Connect() under a concurrent Close(), and what Connect() logs.

\* C25: a pass of the dial loop that begins with the lifetime cancelled
\* ends Connect() with the error "stopped": no dial attempt is made in it,
\* the connection is left as it is, and no handshake follows.
C25_CancelledLifetimeStopsDialing ==
    [][(fault = "" /\ stack = << >> /\ cn.pc = "dial" /\ ctx = "cancelled"
            /\ cn' # cn)
        => /\ cn'.pc = "done"
           /\ cn'.err = Err("stopped")
           /\ cn'.dials = cn.dials
           /\ cn'.hss = cn.hss
           /\ conn' = conn]_vars

C25_Witness ==
    /\ AtCaller
    /\ lastRet.op = "Connect"
    /\ lastRet.err = Err("stopped")
    /\ cn.dials = 0
    /\ conn = "closed"

\* C30: the error Connect() holds, of a failed dial attempt or to return,
\* is the error its last log event carried.
C30_FailuresAreLogged ==
    ~IsNil(cn.err) => cn.logged = cn.err

----------------------------------------------------------------------------
\* Two calls at the same time on one client.

\* An attempt of Run in flight: its command has been started on the session
\* of line 195 and the select of line 231 has not returned.
InFlight(f) == f.op = "Run" /\ f.pc = "running" /\ f.sess = "open"

\* The second call is in its reconnect loop, lines 254-258: its Close() of
\* line 253 has returned, its Connect() has not returned nil.
PeerInLoop == peer.pc \in {"reconnect", "connecting"}

\* C29: the reconnect of the second call does not wait for an attempt in
\* flight, and the attempt takes no part in it.  While the second call is
\* in its reconnect loop, the session of the attempt is on a channel that
\* the Close() of line 253 has closed; only a session of a client that was
\* on an older connection than sh.conn, which that Close() does not close,
\* is still on its channel.  Once the Connect() of line 257 has returned
\* nil, sh.cli is a new client on an open connection and the session is on
\* the replaced one.  What the session is on agrees with sh.cli and
\* sh.conn: a session on the channel sh.cli holds has an open transport, a
\* session on a closed channel has none.
C29_ReconnectInvalidatesChannel ==
    \A i \in 1..Len(stack) :
        (fault = "" /\ InFlight(stack[i]))
        => /\ PeerInLoop
               => \/ stack[i].chan \in {"closed", "replaced"}
                  \/ stack[i].chan = "cur" /\ cli = "oldOpen"
           /\ peer.pc = "sleep"
               => /\ stack[i].chan = "replaced"
                  /\ cli = "cur"
                  /\ conn = "open"
           /\ stack[i].chan = "cur" => CliOpen
           /\ stack[i].chan = "closed" => (~CliOpen /\ PeerInLoop)
           /\ stack[i].chan = "replaced" => peer.pc # "idle"

C29_Witness ==
    /\ fault = ""
    /\ stack # << >>
    /\ Top.pc = "running"
    /\ Top.task = "running"
    /\ Top.sess = "open"
    /\ Top.chan = "replaced"
    /\ peer.pc = "running"
    /\ cli = "cur"
    /\ conn = "open"

----------------------------------------------------------------------------
\* One failure protocol for Run, Send and Download.

\* The error of an attempt that ended as h says: nil for "ok", an error for
\* "failed" and for "pre".
OutcomeErr(h) == IF h = "ok" THEN NilErr ELSE Err("exec")

\* Lines 263-266 of Run in each of d invocations, the one that ended with e
\* and those that called it at line 260 and return what it returned.
RECURSIVE Unwound(_, _, _, _)
Unwound(m, k, e, d) ==
    IF d = 0 THEN m ELSE Unwound(RunLeaves(m, k, e), k, e, d - 1)

\* What the failure protocol of Run, lines 249-266, does on the outcomes t
\* with the ledger m and the key k: before an attempt has ended, or inside
\* the reconnect loop.  ok: t is a sequence of outcomes the protocol can
\* meet; closes, connects and calls count its Close() and Connect()
\* invocations and the invocations of Run; ledger is sh.retries as it leaves
\* it; ended says that the call has returned.  An invocation that returns
\* before the execution ("pre") does not come to line 263, those that
\* called it do.
RECURSIVE Protocol(_, _, _, _, _)
Protocol(m, k, t, inLoop, acc) ==
    IF t = << >> THEN [acc EXCEPT !.ledger = m]
    ELSE IF inLoop
    THEN IF Head(t) \notin {"cok", "cfailed"} THEN [acc EXCEPT !.ok = FALSE]
         ELSE Protocol(RunLoop(m, k), k, Tail(t), Head(t) = "cfailed",
                       [acc EXCEPT !.connects = @ + 1,
                                   !.calls = IF Head(t) = "cok" THEN @ + 1
                                             ELSE @])
    ELSE IF Head(t) \notin {"ok", "failed", "pre"} THEN [acc EXCEPT !.ok = FALSE]
    ELSE IF Head(t) = "failed" /\ RunRetries(m, k, OutcomeErr(Head(t)))
    THEN Protocol(m, k, Tail(t), TRUE, [acc EXCEPT !.closes = @ + 1])
    ELSE [acc EXCEPT !.ok = Tail(t) = << >>,
                     !.ended = TRUE,
                     !.ledger = Unwound(m, k, OutcomeErr(Head(t)),
                                        IF Head(t) = "pre" THEN acc.calls - 1
                                        ELSE acc.calls)]

\* A call of Run with the retries option n on a key k without an entry:
\* lines 187-189 seed the entry.
ProtocolOf(k, n, t) ==
    Protocol(Seed(EmptyLedger, k, n), k, t, FALSE,
             [ok |-> TRUE, ended |-> FALSE, closes |-> 0, connects |-> 0,
              calls |-> 1, ledger |-> Seed(EmptyLedger, k, n)])

\* The entry of the key k is the same in the ledgers m and n: absent in
\* both, or present with one count.
SameEntry(m, n, k) == Has(m, k) = Has(n, k) /\ Get(m, k) = Get(n, k)

\* C24: a call of Send or of Download on a key without a ledger entry does
\* on the outcomes of its attempts and of its Connect() invocations what
\* the failure protocol of Run does on them, and so does a call of Run: as
\* many Close() and Connect() invocations and decrements, as many
\* invocations, each of the operation that was called, and the same ledger
\* entry, absent after a success; it has returned exactly when the protocol
\* of Run has ended.  A call that has crashed has made no further step.
C24_OneFailureProtocol ==
    /\ \A op \in Operations :
         (stack # << >> /\ fault = "" /\ stack[1].op = op /\ stack[1].fresh
              /\ stats.tape # << >>)
         => LET p == ProtocolOf(stack[1].key, stack[1].retries, stats.tape) IN
            /\ p.ok
            /\ stats.closes = p.closes
            /\ stats.connects = p.connects
            /\ \A i \in 1..Len(stack) : stack[i].op = op
            /\ Top.pc # "ret" => (Len(stack) = p.calls /\ ~p.ended)
            /\ Top.pc = "ret" => p.ended
            /\ SameEntry(retries, p.ledger, stack[1].key)
    /\ \A op \in Operations :
         (Returned(op) /\ lastRet.fresh)
         => LET p == ProtocolOf(lastRet.key, lastRet.retries, stats.tape) IN
            /\ p.ok
            /\ p.ended
            /\ stats.closes = p.closes
            /\ stats.connects = p.connects
            /\ SameEntry(retries, p.ledger, lastRet.key)

C24_Witness ==
    /\ Returned("Download")
    /\ lastRet.fresh
    /\ lastRet.retries = 1
    /\ stats.tape = <<"failed", "cfailed", "cok", "failed", "cok", "ok">>

====
